---- MODULE Spec2Model ----
(***************************************************************************)
(* Model of the material recommender: the normalizer                      *)
(* (utils/processamento.py), the matcher and the text vectorizer           *)
(* (utils/recomendacao.py) and the two query paths of app.py.              *)
(*                                                                         *)
(* Numbers are exact fixed-point integers counted in 1/Unit, so that the   *)
(* constants 0.1 and 0.2 of the source and the halves a median of an even  *)
(* number of values produces are all representable.  Text is a TLA+        *)
(* string, that is a sequence of characters: strip, lower, astype(str),    *)
(* to_numeric, the substring tests and the regular expressions are         *)
(* computed character by character.  The variables hold text in ASCII, an  *)
(* accented letter spelled in braces ("n{a~}o"); Decode gives the text      *)
(* itself, and every operation of the program works on the decoded text.   *)
(***************************************************************************)
EXTENDS Integers, Sequences, FiniteSets, TLC

VARIABLES
    df_raw,      \* the catalog as loaded (app.py, line 72)
    df_proc,     \* mapear_valores(df_raw) (app.py, line 73)
    df_reproc,   \* mapear_valores(df_proc)
    modelo,      \* the fitted index (app.py, line 79)
    texto,       \* the free text of the last text query
    entrada,     \* the widget values of the last structured query
    vetor,       \* the query vector
    origem,      \* which path made vetor: "text", "struct" or "none"
    k,           \* the k of the last call of recomendar_material
    resultados,  \* what that call returned
    pc,          \* the last operation and how it ended
    tie,         \* the order the index gives to rows at the same distance
    nq           \* the number of calls of recomendar_material so far

vars == <<df_raw, df_proc, df_reproc, modelo, texto, entrada, vetor, origem, k,
          resultados, pc, tie, nq>>

\* ------------------------------------------------------------ numbers

\* One unit of the fixed-point representation is 1/40.
Unit == 4 * 10

\* The number x/10 (0.1 is Tenths(1)).
Tenths(x) == x * 4

\* The whole number x.
Whole(x) == x * Unit

\* ------------------------------------------------------------ cells

NumCell(u) == [t |-> "num", n |-> u, s |-> ""]

NaN == [t |-> "nan", n |-> 0, s |-> ""]

\* A text cell; s is the ASCII spelling of its text.
StrCell(x) == [t |-> "str", n |-> 0, s |-> x]

IsNum(c) == c.t = "num"

IsWholeNum(c) == c.t = "num" /\ c.n % Unit = 0

\* ------------------------------------------------------------ strings

Digits == "0123456789"

IsDigit(c) == \E i \in 1..10 : SubSeq(Digits, i, i) = c

DigitVal(c) == (CHOOSE i \in 1..10 : SubSeq(Digits, i, i) = c) - 1

IsSpace(c) == c = " " \/ c = "\t" \/ c = "\n"

UpperChars == "ABCDEFGHIJKLMNOPQRSTUVWXYZÁÃÂÉÊÍÓÕÚÇ"

LowerChars == "abcdefghijklmnopqrstuvwxyzáãâéêíóõúç"

LowerChar(c) ==
    IF \E i \in 1..Len(UpperChars) : SubSeq(UpperChars, i, i) = c
    THEN LET i == CHOOSE j \in 1..Len(UpperChars) : SubSeq(UpperChars, j, j) = c
         IN SubSeq(LowerChars, i, i)
    ELSE c

RECURSIVE Lower(_)
\* str.lower()
Lower(s) ==
    IF Len(s) = 0 THEN ""
    ELSE LowerChar(SubSeq(s, 1, 1)) \o Lower(SubSeq(s, 2, Len(s)))

RECURSIVE LStrip(_)
LStrip(s) ==
    IF Len(s) > 0 /\ IsSpace(SubSeq(s, 1, 1)) THEN LStrip(SubSeq(s, 2, Len(s)))
    ELSE s

RECURSIVE RStrip(_)
RStrip(s) ==
    IF Len(s) > 0 /\ IsSpace(SubSeq(s, Len(s), Len(s)))
    THEN RStrip(SubSeq(s, 1, Len(s) - 1))
    ELSE s

\* str.strip()
Strip(s) == RStrip(LStrip(s))

\* The `in` test of two strings: p occurs in t.
Contains(t, p) ==
    \E i \in 1..(Len(t) - Len(p) + 1) : SubSeq(t, i, i + Len(p) - 1) = p

\* The letters and signs spelled in braces in the text the variables hold.
Spelled ==
    ("a~" :> "ã") @@ ("a'" :> "á") @@ ("e'" :> "é") @@ ("e^" :> "ê") @@ ("i'" :> "í")
    @@ ("A~" :> "Ã") @@ ("E'" :> "É") @@ ("deg" :> "°") @@ ("3" :> "³") @@ ("." :> "·")

RECURSIVE Decode(_)
\* The text an ASCII spelling stands for.
Decode(s) ==
    IF Len(s) = 0 THEN ""
    ELSE IF SubSeq(s, 1, 1) = "{"
         THEN LET e == CHOOSE j \in 2..Len(s) :
                          /\ SubSeq(s, j, j) = "}"
                          /\ \A x \in 2..(j - 1) : SubSeq(s, x, x) # "}"
              IN Spelled[SubSeq(s, 2, e - 1)] \o Decode(SubSeq(s, e + 1, Len(s)))
         ELSE SubSeq(s, 1, 1) \o Decode(SubSeq(s, 2, Len(s)))

RECURSIVE NatToStr(_)
\* str() of a natural number.
NatToStr(x) ==
    IF x < 10 THEN SubSeq(Digits, x + 1, x + 1)
    ELSE NatToStr(x \div 10) \o SubSeq(Digits, (x % 10) + 1, (x % 10) + 1)

\* str() of an int.
IntToStr(x) == IF x < 0 THEN "-" \o NatToStr(-x) ELSE NatToStr(x)

\* The digits of a fraction f/Unit, 0 <= f < Unit, as repr() of a float prints
\* them: the thousandths without trailing zeros, at least one digit.
FracToStr(f) ==
    LET th == f * 25
        d1 == th \div 100
        d2 == (th \div 10) % 10
        d3 == th % 10
    IN IF d3 # 0 THEN NatToStr(d1) \o NatToStr(d2) \o NatToStr(d3)
       ELSE IF d2 # 0 THEN NatToStr(d1) \o NatToStr(d2)
       ELSE NatToStr(d1)

\* str() of a float.
FloatToStr(u) ==
    LET a == IF u < 0 THEN -u ELSE u
    IN (IF u < 0 THEN "-" ELSE "") \o NatToStr(a \div Unit) \o "." \o FracToStr(a % Unit)

\* Length of the run of digits of s that starts at position i.
RECURSIVE DigitRun(_, _)
DigitRun(s, i) ==
    IF i <= Len(s) /\ IsDigit(SubSeq(s, i, i)) THEN 1 + DigitRun(s, i + 1) ELSE 0

RECURSIVE DigitsVal(_)
\* int() of a string of digits.
DigitsVal(s) ==
    IF Len(s) = 0 THEN 0
    ELSE DigitsVal(SubSeq(s, 1, Len(s) - 1)) * 10 + DigitVal(SubSeq(s, Len(s), Len(s)))

\* The value, in units, of the fraction written with the digits s (".5" is
\* Unit/2); digits past the third are below the resolution and are cut.
FracVal(s) ==
    LET p == SubSeq(s \o "000", 1, 3)
    IN (DigitsVal(p) * Unit) \div 1000

\* float() of "ddd" or "ddd.ddd", in units.
DecimalVal(ip, fp) == DigitsVal(ip) * Unit + FracVal(fp)

\* pandas.to_numeric(errors='coerce') of one text cell: optional blanks, an
\* optional sign, digits, an optional fraction; anything else is missing.
ParseNumber(s0) ==
    LET s  == Strip(s0)
        ng == Len(s) > 0 /\ SubSeq(s, 1, 1) = "-"
        b  == IF ng THEN 2 ELSE 1
        r  == DigitRun(s, b)
        e  == b + r
        hasFrac == e <= Len(s) /\ SubSeq(s, e, e) = "."
        fr == IF hasFrac THEN DigitRun(s, e + 1) ELSE 0
        last == IF hasFrac THEN e + fr ELSE e - 1
        ok == (r > 0 \/ fr > 0) /\ last = Len(s)
        v  == DecimalVal(SubSeq(s, b, e - 1), SubSeq(s, e + 1, e + fr))
    IN IF ok THEN NumCell(IF ng THEN -v ELSE v) ELSE NaN

\* ------------------------------------------------------------ data frames

\* A column (pandas Series): its dtype ("int64", "float64" or "object") and
\* its cells in row order.
Series(d, cs) == [dtype |-> d, cells |-> cs]

\* A table (pandas DataFrame): its number of rows and its columns by name.
Frame(rows, columns) == [ok |-> TRUE, n |-> rows, cols |-> columns]

\* No table (the operation that makes it has not returned one).
NoFrame == [ok |-> FALSE, n |-> 0, cols |-> <<>>]

HasCol(df, c) == c \in DOMAIN df.cols

\* out[c] = col
SetCol(df, c, col) == [df EXCEPT !.cols = (c :> col) @@ df.cols]

AnyNaN(cs) == \E i \in 1..Len(cs) : cs[i].t = "nan"

\* Series.astype(str): str() of every cell.
AsTypeStr(col) ==
    [i \in 1..Len(col.cells) |->
        LET c == col.cells[i]
        IN IF c.t = "str" THEN Decode(c.s)
           ELSE IF c.t = "nan" THEN "nan"
           ELSE IF col.dtype = "int64" THEN IntToStr(c.n \div Unit)
           ELSE FloatToStr(c.n)]

\* The dtype pandas infers for the result of Series.map: int64 when every
\* result is a Python int, float64 as soon as one is a float or missing.
MapDtype(cs, intValued) ==
    IF intValued /\ Len(cs) > 0 /\ ~AnyNaN(cs) THEN "int64" ELSE "float64"

\* keys.map(lambda v: mapa.get(v, np.nan))
MapGet(keys, mapa, intValued) ==
    LET cs == [i \in 1..Len(keys) |->
                 IF keys[i] \in DOMAIN mapa THEN NumCell(mapa[keys[i]]) ELSE NaN]
    IN Series(MapDtype(cs, intValued), cs)

\* col.astype(str).str.strip().str.lower()
StripLower(col) ==
    LET ss == AsTypeStr(col) IN [i \in 1..Len(ss) |-> Lower(Strip(ss[i]))]

\* ------------------------------------------------------------ processamento.py

_MAP_CUSTO ==
    ("baixo" :> Whole(0)) @@ ("baixo-médio" :> Whole(1)) @@ ("médio" :> Whole(2))
    @@ ("médio-alto" :> Whole(3)) @@ ("alto" :> Whole(4))

\* The vocabulary without the key '1'.
MapSimNaoSemUm ==
    ("não" :> Whole(0)) @@ ("nao" :> Whole(0)) @@ ("não " :> Whole(0))
    @@ ("sim" :> Whole(1)) @@ ("0" :> Whole(0))

_MAP_SIMNAO ==
    ("não" :> Whole(0)) @@ ("nao" :> Whole(0)) @@ ("não " :> Whole(0))
    @@ ("sim" :> Whole(1)) @@ ("1" :> Whole(1)) @@ ("0" :> Whole(0))

dens_map ==
    ("leve" :> Whole(1000)) @@ ("médio" :> Whole(5000)) @@ ("medio" :> Whole(5000))
    @@ ("pesado" :> Whole(8000))

res_map ==
    ("baixa" :> Whole(10)) @@ ("média" :> Whole(100)) @@ ("media" :> Whole(100))
    @@ ("alta" :> Whole(400))

cond_map ==
    ("baixa" :> Tenths(1)) @@ ("média" :> Whole(1)) @@ ("media" :> Whole(1))
    @@ ("alta" :> Whole(100))

features ==
    <<"custo_index", "densidade_kg_m3", "tensile_strength_MPa",
      "thermal_conductivity_W_mK", "reciclavel", "biodegradavel", "melting_point_C">>

defaults ==
    [custo_index |-> Whole(3), densidade_kg_m3 |-> Whole(2000),
     tensile_strength_MPa |-> Whole(50), thermal_conductivity_W_mK |-> Whole(1),
     reciclavel |-> Whole(1), biodegradavel |-> Whole(0), melting_point_C |-> Whole(300)]

\* _map_col_if_exists raises AttributeError: the column is of dtype object and
\* .str.strip() leaves a cell that is not text as NaN, on which the lambda
\* calls v.lower().
_map_col_if_exists_raises(df, col) ==
    /\ HasCol(df, col)
    /\ df.cols[col].dtype = "object"
    /\ \E i \in 1..df.n : df.cols[col].cells[i].t # "str"

\* _map_col_if_exists, for a column that exists and when it returns.
_map_col_if_exists(df, col, mapa) ==
    IF df.cols[col].dtype = "object"
    THEN MapGet([i \in 1..df.n |-> Lower(Strip(Decode(df.cols[col].cells[i].s)))],
                mapa, TRUE)
    ELSE df.cols[col]

\* Lines 38-40: custo -> custo_index.
AliasCustoApplies(out) == ~HasCol(out, "custo_index") /\ HasCol(out, "custo")

AliasCusto(out) ==
    IF AliasCustoApplies(out)
    THEN SetCol(out, "custo_index", _map_col_if_exists(out, "custo", _MAP_CUSTO))
    ELSE out

\* Lines 43-47: peso -> densidade_kg_m3.
AliasPeso(out) ==
    IF ~HasCol(out, "densidade_kg_m3") /\ HasCol(out, "peso")
    THEN SetCol(out, "densidade_kg_m3", MapGet(StripLower(out.cols["peso"]), dens_map, TRUE))
    ELSE out

\* Lines 50-53: resistencia -> tensile_strength_MPa.
AliasResistencia(out) ==
    IF ~HasCol(out, "tensile_strength_MPa") /\ HasCol(out, "resistencia")
    THEN SetCol(out, "tensile_strength_MPa",
                MapGet(StripLower(out.cols["resistencia"]), res_map, FALSE))
    ELSE out

\* Lines 56-59: condutividade -> thermal_conductivity_W_mK.
AliasCondutividade(out) ==
    IF ~HasCol(out, "thermal_conductivity_W_mK") /\ HasCol(out, "condutividade")
    THEN SetCol(out, "thermal_conductivity_W_mK",
                MapGet(StripLower(out.cols["condutividade"]), cond_map, FALSE))
    ELSE out

\* Lines 62-65: the vocabulary of reciclavel / biodegradavel.
MapSimNao(out, col) ==
    IF HasCol(out, col)
    THEN SetCol(out, col, MapGet(StripLower(out.cols[col]), _MAP_SIMNAO, TRUE))
    ELSE out

\* Lines 68-69: temperatura_max -> melting_point_C.
AliasTemperatura(out) ==
    IF ~HasCol(out, "melting_point_C") /\ HasCol(out, "temperatura_max")
    THEN SetCol(out, "melting_point_C", out.cols["temperatura_max"])
    ELSE out

AllNaN(rows) == Series("float64", [i \in 1..rows |-> NaN])

\* Lines 73-75: a feature column that is still absent is created all missing.
SynthMissing(out) ==
    [out EXCEPT !.cols =
        [c \in DOMAIN out.cols \cup {features[j] : j \in 1..Len(features)} |->
            IF c \in DOMAIN out.cols THEN out.cols[c] ELSE AllNaN(out.n)]]

\* pd.to_numeric(col, errors='coerce')
to_numeric(col) ==
    IF col.dtype # "object" THEN col
    ELSE LET cs == [i \in 1..Len(col.cells) |->
                      IF col.cells[i].t = "str" THEN ParseNumber(Decode(col.cells[i].s))
                      ELSE col.cells[i]]
         IN Series(IF Len(cs) > 0 /\ \A i \in 1..Len(cs) : IsWholeNum(cs[i])
                   THEN "int64" ELSE "float64", cs)

\* Line 78.
ToNumeric(out) ==
    [out EXCEPT !.cols =
        [c \in DOMAIN out.cols |->
            IF \E j \in 1..Len(features) : features[j] = c
            THEN to_numeric(out.cols[c]) ELSE out.cols[c]]]

\* The values of the cells that are not missing.
Present(cs) ==
    LET ps == SelectSeq(cs, IsNum) IN [i \in 1..Len(ps) |-> ps[i].n]

\* Series.median(): NaN (here: none) when every cell is missing.
HasMedian(cs) == Len(Present(cs)) > 0

Median(cs) ==
    LET v == SortSeq(Present(cs), <)
        m == Len(v)
    IN IF m % 2 = 1 THEN v[(m + 1) \div 2]
       ELSE (v[m \div 2] + v[(m \div 2) + 1]) \div 2

\* Series.fillna(x)
fillna(col, x) ==
    Series(col.dtype, [i \in 1..Len(col.cells) |->
                          IF col.cells[i].t = "nan" THEN NumCell(x) ELSE col.cells[i]])

\* The fill without the branch of the defaults (lines 85-96 left out).
FillFeatureSemDefault(col, f) ==
    IF AnyNaN(col.cells) /\ HasMedian(col.cells) THEN fillna(col, Median(col.cells))
    ELSE col

\* Lines 82-98, for one feature.
FillFeature(col, f) ==
    IF AnyNaN(col.cells)
    THEN IF HasMedian(col.cells) THEN fillna(col, Median(col.cells))
         ELSE fillna(col, defaults[f])
    ELSE col

\* out.dropna(subset=features) in place of the fill: the rows with a missing
\* feature are dropped.
FillNaDropRows(out) ==
    LET complete(i) == \A j \in 1..Len(features) : IsNum(out.cols[features[j]].cells[i])
        kept == SelectSeq([i \in 1..out.n |-> i], complete)
    IN [out EXCEPT !.n = Len(kept),
                   !.cols = [c \in DOMAIN out.cols |->
                               Series(out.cols[c].dtype,
                                      [j \in 1..Len(kept) |-> out.cols[c].cells[kept[j]]])]]

\* Lines 81-98.
FillNa(out) ==
    [out EXCEPT !.cols =
        [c \in DOMAIN out.cols |->
            IF \E j \in 1..Len(features) : features[j] = c
            THEN FillFeature(out.cols[c], c) ELSE out.cols[c]]]

\* Lines 101-103: out[keep].
Keep(out) ==
    LET keep == ({"id", "nome_material"} \cap DOMAIN out.cols)
                \cup {features[j] : j \in 1..Len(features)}
    IN [out EXCEPT !.cols = [c \in keep |-> out.cols[c]]]

\* mapear_valores raises instead of returning.
mapear_valores_raises(df) ==
    AliasCustoApplies(df) /\ _map_col_if_exists_raises(df, "custo")

\* mapear_valores, when it returns.
mapear_valores(df) ==
    Keep(FillNa(ToNumeric(SynthMissing(AliasTemperatura(
        MapSimNao(MapSimNao(AliasCondutividade(AliasResistencia(AliasPeso(
            AliasCusto(df)))), "reciclavel"), "biodegradavel"))))))

\* ------------------------------------------------------------ recomendacao.py: texto_para_vetor

\* The characters pattern p stands for, found in t from position j on ("." is
\* any character but a line break, as in a regular expression).
PatAt(t, j, p) ==
    /\ j >= 1
    /\ j + Len(p) - 1 <= Len(t)
    /\ \A x \in 1..Len(p) :
          \/ SubSeq(p, x, x) = SubSeq(t, j + x - 1, j + x - 1)
          \/ SubSeq(p, x, x) = "." /\ SubSeq(t, j + x - 1, j + x - 1) # "\n"

RECURSIVE SkipSpaces(_, _)
\* \s* from position j: the position after the blanks.
SkipSpaces(t, j) ==
    IF j <= Len(t) /\ IsSpace(SubSeq(t, j, j)) THEN SkipSpaces(t, j + 1) ELSE j

\* A match, started at position i, of  -?\d{lo,hi}(\.\d+)?  (the sign only with
\* neg, the fraction only with frac).  A run of digits is taken whole or not at
\* all: what follows the number in every pattern of texto_para_vetor is no
\* digit, so a shorter count of digits never lets the rest match.
NumberAt(t, i, lo, hi, neg, frac) ==
    LET ng == neg /\ SubSeq(t, i, i) = "-"
        b  == IF ng THEN i + 1 ELSE i
        r  == DigitRun(t, b)
        e  == b + r
        fr == IF frac /\ e <= Len(t) /\ SubSeq(t, e, e) = "." THEN DigitRun(t, e + 1) ELSE 0
        v  == DecimalVal(SubSeq(t, b, e - 1), SubSeq(t, e + 1, e + fr))
    IN [ok |-> r >= lo /\ r <= hi,
        next |-> IF fr > 0 THEN e + fr + 1 ELSE e,
        val |-> IF ng THEN -v ELSE v]

\* The rest of a pattern after the number:  \s*(s1|s2|...)
UnitAt(t, j, suffixes) == \E p \in suffixes : PatAt(t, SkipSpaces(t, j), p)

\* The rest of the temperature pattern:  \s*°?\s*c
CelsiusAt(t, j) ==
    LET a == SkipSpaces(t, j)
        b == IF PatAt(t, a, "°") THEN a + 1 ELSE a
    IN PatAt(t, SkipSpaces(t, b), "c")

\* re.search of a number followed by a unit: the leftmost match.
NumberMatches(t, i, lo, hi, frac, suffixes) ==
    LET m == NumberAt(t, i, lo, hi, FALSE, frac) IN m.ok /\ UnitAt(t, m.next, suffixes)

SearchNumber(t, lo, hi, frac, suffixes) ==
    LET hits == {i \in 1..Len(t) : NumberMatches(t, i, lo, hi, frac, suffixes)}
    IN IF hits = {} THEN [found |-> FALSE, val |-> 0]
       ELSE [found |-> TRUE,
             val |-> NumberAt(t, CHOOSE i \in hits : \A j \in hits : i <= j,
                              lo, hi, FALSE, frac).val]

\* re.search(r'(-?\d{1,4})\s*°?\s*c', t)
SearchCelsius(t) ==
    LET hits == {i \in 1..Len(t) :
                    LET m == NumberAt(t, i, 1, 4, TRUE, FALSE)
                    IN m.ok /\ CelsiusAt(t, m.next)}
    IN IF hits = {} THEN [found |-> FALSE, val |-> 0]
       ELSE [found |-> TRUE,
             val |-> NumberAt(t, CHOOSE i \in hits : \A j \in hits : i <= j,
                              1, 4, TRUE, FALSE).val]

\* df_population[col].median() if df_population is not None else dflt
PopMedian(pop, col, dflt) ==
    IF pop.ok
    THEN IF HasMedian(pop.cols[col].cells) THEN NumCell(Median(pop.cols[col].cells)) ELSE NaN
    ELSE NumCell(dflt)

\* Lines 55-62: custo_index.
TextoCusto(t) ==
    IF Contains(t, "barato") \/ Contains(t, "baixo custo") THEN NumCell(Whole(1))
    ELSE IF Contains(t, "médio") \/ Contains(t, "medio") \/ Contains(t, "custo médio")
         THEN NumCell(Whole(3))
    ELSE IF Contains(t, "caro") \/ Contains(t, "alto custo") THEN NumCell(Whole(6))
    ELSE NumCell(Whole(3))

\* Lines 65-81: densidade_kg_m3.
TextoDens(t, pop) ==
    IF Contains(t, "leve") \/ Contains(t, "levíssimo") THEN NumCell(Whole(900))
    ELSE IF Contains(t, "pesado") \/ Contains(t, "pesad") THEN NumCell(Whole(7800))
    ELSE IF Contains(t, "médio") THEN NumCell(Whole(2500))
    ELSE LET match == SearchNumber(t, 2, 5, FALSE, {"kg/m3", "kg/m³"})
             match2 == SearchNumber(t, 1, 4, TRUE, {"g/cm3", "g/cm³"})
         IN IF match.found THEN NumCell(match.val)
            ELSE IF match2.found THEN NumCell(match2.val * 1000)
            ELSE PopMedian(pop, "densidade_kg_m3", Whole(2000))

\* Lines 84-96: tensile_strength_MPa.
TextoTens(t, pop) ==
    IF Contains(t, "muito resistente") \/ Contains(t, "alta resistência")
    THEN NumCell(Whole(400))
    ELSE IF Contains(t, "resistente") \/ Contains(t, "resistência alta")
         THEN NumCell(Whole(200))
    ELSE IF Contains(t, "pouco resistente") \/ Contains(t, "frágil") THEN NumCell(Whole(10))
    ELSE LET m == SearchNumber(t, 2, 4, FALSE, {"mpa"})
         IN IF m.found THEN NumCell(m.val)
            ELSE PopMedian(pop, "tensile_strength_MPa", Whole(50))

\* Lines 99-108: thermal_conductivity_W_mK.
TextoCond(t, pop) ==
    IF Contains(t, "isolante") \/ Contains(t, "baixo condutor") THEN NumCell(Tenths(2))
    ELSE IF Contains(t, "condutor") \/ Contains(t, "alta condutividade")
            \/ Contains(t, "elétrico")
         THEN NumCell(Whole(100))
    ELSE LET m == SearchNumber(t, 1, 4, TRUE, {"w/m.k", "w/m·k", "w/mk"})
         IN IF m.found THEN NumCell(m.val)
            ELSE PopMedian(pop, "thermal_conductivity_W_mK", Whole(1))

\* Line 111: reciclavel.
TextoRecicl(t) ==
    IF Contains(t, "recicl") \/ Contains(t, "reutiliz") THEN NumCell(Whole(1))
    ELSE NumCell(Whole(0))

\* Line 112: biodegradavel.
TextoBio(t) ==
    IF Contains(t, "biodegrad") \/ Contains(t, "compost") THEN NumCell(Whole(1))
    ELSE NumCell(Whole(0))

\* Lines 115-124: melting_point_C.
TextoTemp(t, pop) ==
    LET m == SearchCelsius(t)
    IN IF m.found THEN NumCell(m.val)
       ELSE IF Contains(t, "resiste ao calor") \/ Contains(t, "alta temperatura")
            THEN NumCell(Whole(1000))
       ELSE IF Contains(t, "nao derrete") \/ Contains(t, "não derrete")
            THEN NumCell(Whole(1500))
       ELSE PopMedian(pop, "melting_point_C", Whole(300))

\* The list returned with tens and cond in each other's place.
TextoVetorTrocado(custo, dens, tens, cond, recicl, bio, temp) ==
    <<custo, dens, cond, tens, recicl, bio, temp>>

\* Line 126: the list returned, [custo, dens, tens, cond, recicl, bio, temp].
TextoVetor(custo, dens, tens, cond, recicl, bio, temp) ==
    <<custo, dens, tens, cond, recicl, bio, temp>>

texto_para_vetor(txt, df_population) ==
    LET t == Lower(txt)
    IN TextoVetor(TextoCusto(t), TextoDens(t, df_population), TextoTens(t, df_population),
                  TextoCond(t, df_population), TextoRecicl(t), TextoBio(t),
                  TextoTemp(t, df_population))

\* ------------------------------------------------------------ recomendacao.py: the matcher

_FEATURES ==
    <<"custo_index", "densidade_kg_m3", "tensile_strength_MPa",
      "thermal_conductivity_W_mK", "reciclavel", "biodegradavel", "melting_point_C">>

\* A sum of squares is kept exactly, beyond 32 bits, as <<h, l>> standing for h * 10^6 + l with 0 <= l < 10^6.
Base == 1000 * 1000

BigZero == <<0, 0>>

BigAdd(x, y) == <<x[1] + y[1] + ((x[2] + y[2]) \div Base), (x[2] + y[2]) % Base>>

BigLess(x, y) == x[1] < y[1] \/ (x[1] = y[1] /\ x[2] < y[2])

BigLeq(x, y) == x = y \/ BigLess(x, y)

\* d * d
BigSquare(d) ==
    LET a  == IF d < 0 THEN -d ELSE d
        hi == a \div 1000
        lo == a % 1000
        cross == 2 * hi * lo
        l  == ((cross % 1000) * 1000) + (lo * lo)
    IN <<(hi * hi) + (cross \div 1000) + (l \div Base), l % Base>>

RECURSIVE SumSquares(_, _, _)
SumSquares(x, q, i) ==
    IF i = 0 THEN BigZero
    ELSE BigAdd(SumSquares(x, q, i - 1), BigSquare(x[i].n - q[i].n))

\* metric='euclidean': the distance of a fitted row x to the query q, kept as
\* its square (the square root is increasing: the order of two distances is
\* the order of their squares).
Euclidean2(x, q) == SumSquares(x, q, Len(x))

\* df[_FEATURES].values: one vector per row, the columns in the order of _FEATURES.
FeatureMatrix(df) ==
    [r \in 1..df.n |-> [i \in 1..Len(_FEATURES) |-> df.cols[_FEATURES[i]].cells[r]]]

\* NearestNeighbors.fit raises ValueError on a table without rows or with a
\* missing value.
preparar_modelo_raises(df) ==
    \/ df.n = 0
    \/ \E r \in 1..df.n : \E i \in 1..Len(_FEATURES) : ~IsNum(df.cols[_FEATURES[i]].cells[r])

\* preparar_modelo, when it returns: the fitted index.
preparar_modelo(df, n_neighbors) ==
    [ok |-> TRUE, X |-> FeatureMatrix(df), n_neighbors |-> n_neighbors]

\* modelo.kneighbors raises ValueError: more neighbours asked than rows fitted,
\* none asked, a query of another length than the fitted vectors, or a query
\* with a missing value.
kneighbors_raises(m, Xq, kk) ==
    \/ kk > Len(m.X)
    \/ kk <= 0
    \/ Len(Xq) # Len(_FEATURES)
    \/ \E i \in 1..Len(Xq) : ~IsNum(Xq[i])

\* modelo.kneighbors(Xq, n_neighbors=kk), when it returns: the positions of the
\* kk nearest fitted rows, nearest first, and their distances.  The library
\* orders rows at the same distance in a way it does not specify but repeats:
\* order is "first" (lower position first) or "last".
kneighbors(m, Xq, kk, order) ==
    LET d == [r \in 1..Len(m.X) |-> Euclidean2(m.X[r], Xq)]
        Before(a, b) ==
            \/ BigLess(d[a], d[b])
            \/ d[a] = d[b] /\ (IF order = "first" THEN a < b ELSE a > b)
        ranked == SortSeq([r \in 1..Len(m.X) |-> r], Before)
        idx == SubSeq(ranked, 1, kk)
    IN [idx |-> idx, dist |-> [j \in 1..kk |-> d[idx[j]]]]

\* k clamped to the number of fitted rows.
NeighborsClamped(kk, fitted) == IF kk > fitted THEN fitted ELSE kk

\* Line 32: the number of neighbours asked of the index is k as given.
NeighborsAsked(kk, fitted) == kk

\* df.iloc[p]: the row at position p, every column of the table.
RowAt(df, p) == [c \in DOMAIN df.cols |-> df.cols[c].cells[p]]

\* df_original.head(k) in place of df_original.iloc[idx[0]].
ResultTableHead(df_original, nn) ==
    [j \in 1..Len(nn.idx) |->
        [row |-> RowAt(df_original, j), distancia |-> nn.dist[j]]]

\* Lines 33-35: df_original.iloc[idx[0]].copy(), reset_index and the column
\* distancia.
ResultTable(df_original, nn) ==
    [j \in 1..Len(nn.idx) |->
        [row |-> RowAt(df_original, nn.idx[j]), distancia |-> nn.dist[j]]]

recomendar_material_raises(m, df_original, vetor_entrada, kk) ==
    kneighbors_raises(m, vetor_entrada, NeighborsAsked(kk, Len(m.X)))

\* recomendar_material, when it returns.
recomendar_material(m, df_original, vetor_entrada, kk, order) ==
    ResultTable(df_original,
                kneighbors(m, vetor_entrada, NeighborsAsked(kk, Len(m.X)), order))

\* Lines 33 and 35: the rows are copied before the column distancia is added;
\* the caller's table after the call.
InputAfterRecomendar(df_original, res) == df_original

\* kneighbors reads the fitted index; the index after the call.
ModelAfterRecomendar(m, vetor_entrada) == m

\* ------------------------------------------------------------ app.py: structured input

\* Lines 116-124: the canonical field each widget asks for, by its label.
WidgetOf ==
    [custo_index |-> "custo", densidade_kg_m3 |-> "dens",
     tensile_strength_MPa |-> "tensile", thermal_conductivity_W_mK |-> "cond",
     reciclavel |-> "recicl", biodegradavel |-> "bio", melting_point_C |-> "temp"]

\* Line 127: vetor = [float(custo), float(dens), float(tensile), float(cond),
\* float(recicl), float(bio), float(temp)]
VetorEstruturado(e) ==
    <<NumCell(e.custo), NumCell(e.dens), NumCell(e.tensile), NumCell(e.cond),
      NumCell(e.recicl), NumCell(e.bio), NumCell(e.temp)>>

\* ------------------------------------------------------------ raw tables

\* The largest number of rows of a raw table.
MaxRows == 3

legacy == {"custo", "peso", "resistencia", "condutividade", "temperatura_max"}

FeatureSet == {features[j] : j \in 1..Len(features)}

\* The numbers a numeric cell of a raw column takes.
NumValues(c) ==
    IF c \in {"reciclavel", "biodegradavel"} THEN {Whole(0), Whole(1), Whole(2)}
    ELSE {Whole(1), Whole(4), Tenths(25)}

\* The texts a text cell of a raw column takes, in their ASCII spelling.
TextValues(c) ==
    CASE c = "custo" -> {"baixo", " Alto ", "caro"}
      [] c = "peso" -> {"leve", "M{e'}dio", "x"}
      [] c = "resistencia" -> {"baixa", "Media ", "x"}
      [] c = "condutividade" -> {"baixa", "ALTA", "x"}
      [] c \in {"reciclavel", "biodegradavel"} -> {"sim", " N{a~}o", "1", "talvez"}
      [] OTHER -> {"3", " 2.5", "abc"}

\* The columns pandas.read_csv makes of n cells: int64 or float64 when every
\* cell is a number or empty (int64 only without an empty cell and with whole
\* numbers), object when a cell is text.
NumericColumns(c, n) ==
    {col \in {Series(d, cs) : d \in {"int64", "float64"},
                              cs \in [1..n -> {NumCell(v) : v \in NumValues(c)} \cup {NaN}]} :
        col.dtype = "int64" => \A i \in 1..n : IsWholeNum(col.cells[i])}

TextColumns(c, n) ==
    {col \in {Series("object", cs) :
                 cs \in [1..n -> {StrCell(v) : v \in TextValues(c)} \cup {NaN}]} :
        n = 0 \/ \E i \in 1..n : col.cells[i].t = "str"}

RawColumns(c, n) == NumericColumns(c, n) \cup TextColumns(c, n)

IdColumn(n) == Series("int64", [i \in 1..n |-> NumCell(Whole(i))])

\* A table with the identity column only.
BareTable(n) == Frame(n, "id" :> IdColumn(n))

\* A table with the identity columns and the seven canonical columns, numeric.
FullTable(n) ==
    Frame(n,
        [c \in {"id", "nome_material"} \cup FeatureSet |->
            CASE c = "id" -> IdColumn(n)
              [] c = "nome_material" -> Series("object", [i \in 1..n |-> StrCell("m" \o NatToStr(i))])
              [] c \in {"reciclavel", "biodegradavel"} ->
                    Series("int64", [i \in 1..n |-> NumCell(Whole(i % 2))])
              [] c = "thermal_conductivity_W_mK" ->
                    Series("float64", [i \in 1..n |-> NumCell(Tenths(5 * i))])
              [] OTHER -> Series("int64", [i \in 1..n |-> NumCell(Whole(10 * i))])])

\* The raw tables of the normalizer's check: a bare or a full table in which
\* one column, canonical or legacy, takes every content.
RawTable(df) ==
    \E n \in 0..MaxRows : \E c \in FeatureSet \cup legacy :
        \E base \in {BareTable(n), FullTable(n)} : \E col \in RawColumns(c, n) :
            df = SetCol(base, c, col)

\* ------------------------------------------------------------ the normalizer's run

NoModel == [ok |-> FALSE, X |-> <<>>, n_neighbors |-> 0]

NoEntrada ==
    [custo |-> 0, dens |-> 0, tensile |-> 0, cond |-> 0, recicl |-> 0, bio |-> 0, temp |-> 0]

\* The table the operations before Keep have written: out, with every column.
MapearOut(df) ==
    FillNa(ToNumeric(SynthMissing(AliasTemperatura(
        MapSimNao(MapSimNao(AliasCondutividade(AliasResistencia(AliasPeso(
            AliasCusto(df)))), "reciclavel"), "biodegradavel")))))

\* The caller's table after a mapear_valores that works on df itself.
InputAfterMapearInPlace(df) == MapearOut(df)

\* Line 34, out = df.copy(): the caller's table after the call.
InputAfterMapear(df) == df

Idle ==
    /\ df_proc = NoFrame
    /\ df_reproc = NoFrame
    /\ modelo = NoModel
    /\ texto = ""
    /\ entrada = NoEntrada
    /\ vetor = <<>>
    /\ origem = "none"
    /\ k = 0
    /\ resultados = <<>>
    /\ nq = 0

InitNorm ==
    /\ RawTable(df_raw)
    /\ pc = "loaded"
    /\ tie = "first"
    /\ Idle

\* df_proc = mapear_valores(df_raw)
Normalize ==
    /\ pc = "loaded"
    /\ IF mapear_valores_raises(df_raw)
       THEN /\ pc' = "normalize_error"
            /\ UNCHANGED <<df_raw, df_proc>>
       ELSE /\ pc' = "normalized"
            /\ df_proc' = mapear_valores(df_raw)
            /\ df_raw' = InputAfterMapear(df_raw)
    /\ UNCHANGED <<df_reproc, modelo, texto, entrada, vetor, origem, k, resultados, tie, nq>>

\* mapear_valores applied to its own result.
Renormalize ==
    /\ pc = "normalized"
    /\ ~mapear_valores_raises(df_proc)
    /\ df_reproc' = mapear_valores(df_proc)
    /\ df_proc' = InputAfterMapear(df_proc)
    /\ pc' = "renormalized"
    /\ UNCHANGED <<df_raw, modelo, texto, entrada, vetor, origem, k, resultados, tie, nq>>

NextNorm == Normalize \/ Renormalize

SpecNorm == InitNorm /\ [][NextNorm]_vars

\* ------------------------------------------------------------ the application's run

\* The largest number of rows of a catalog.
MaxCatalog == 3

\* The largest number of calls of recomendar_material in one run.
MaxQueries == 2

\* The rows a catalog is made of: a legacy cost, a density that may be empty,
\* the recyclable flag as text.
RowKinds ==
    {[custo |-> StrCell("baixo"), dens |-> NumCell(Whole(1000)), recicl |-> StrCell("sim")],
     [custo |-> StrCell("alto"), dens |-> NumCell(Whole(8000)), recicl |-> StrCell("n{a~}o")],
     [custo |-> StrCell("m{e'}dio"), dens |-> NaN, recicl |-> StrCell("Sim ")]}

Catalog(rows) ==
    LET n == Len(rows)
        dens == [i \in 1..n |-> rows[i].dens]
    IN Frame(n,
        [c \in {"id", "nome_material", "custo", "densidade_kg_m3", "reciclavel"} |->
            CASE c = "id" -> IdColumn(n)
              [] c = "nome_material" -> Series("object", [i \in 1..n |-> StrCell("m" \o NatToStr(i))])
              [] c = "custo" -> Series("object", [i \in 1..n |-> rows[i].custo])
              [] c = "densidade_kg_m3" ->
                    Series(IF n > 0 /\ ~AnyNaN(dens) THEN "int64" ELSE "float64", dens)
              [] OTHER -> Series("object", [i \in 1..n |-> rows[i].recicl])])

Catalogs == UNION {{Catalog(rows) : rows \in [1..n -> RowKinds]} : n \in 0..MaxCatalog}

\* The text of the example: "leve, barato, resistência alta, não biodegradável".
ExampleText == "leve, barato, resist{e^}ncia alta, n{a~}o biodegrad{a'}vel"

\* The free texts of the queries, in their ASCII spelling.
Texts ==
    {ExampleText,
     "Pesado, caro, recicl{a'}vel e isolante",
     "2.5 g/cm3, 120 MPa, 0.5 W/mK, 200 {deg}C",
     "",
     "m{e'}dio, compost{a'}vel, n{a~}o derrete, condutor, fr{a'}gil",
     "950 kg/m{3} muito resistente, resiste ao calor"}

\* The widget values of the structured queries.
Entradas ==
    {[custo |-> Whole(c), dens |-> Whole(d), tensile |-> Whole(50), cond |-> Whole(1),
      recicl |-> Whole(1), bio |-> Whole(0), temp |-> Whole(300)] :
        c \in {0, 2}, d \in {1000, 4500}}

Init ==
    /\ df_raw \in Catalogs
    /\ pc = "loaded"
    /\ tie \in {"first", "last"}
    /\ Idle

\* app.py, line 79: modelo = preparar_modelo(df_proc, n_neighbors=5)
Fit ==
    /\ pc = "normalized"
    /\ IF preparar_modelo_raises(df_proc)
       THEN /\ pc' = "fit_error"
            /\ UNCHANGED modelo
       ELSE /\ pc' = "fitted"
            /\ modelo' = preparar_modelo(df_proc, 5)
    /\ UNCHANGED <<df_raw, df_proc, df_reproc, texto, entrada, vetor, origem, k, resultados,
                   tie, nq>>

\* app.py, line 106: vetor = texto_para_vetor(texto, df_proc)
Vectorize ==
    /\ pc = "fitted"
    /\ \E txt \in Texts :
          /\ texto' = txt
          /\ vetor' = texto_para_vetor(Decode(txt), df_proc)
    /\ entrada' = NoEntrada
    /\ origem' = "text"
    /\ resultados' = <<>>
    /\ k' = 0
    /\ pc' = "vector"
    /\ UNCHANGED <<df_raw, df_proc, df_reproc, modelo, tie, nq>>

\* app.py, line 127: the vector of the structured inputs.
Assemble ==
    /\ pc = "fitted"
    /\ \E e \in Entradas :
          /\ entrada' = e
          /\ vetor' = VetorEstruturado(e)
    /\ texto' = ""
    /\ origem' = "struct"
    /\ resultados' = <<>>
    /\ k' = 0
    /\ pc' = "vector"
    /\ UNCHANGED <<df_raw, df_proc, df_reproc, modelo, tie, nq>>

\* resultados = recomendar_material(modelo, df_raw, vetor, k)
Recommend ==
    /\ pc \in {"vector", "queried", "query_error"}
    /\ nq < MaxQueries
    /\ \E kk \in 0..(Len(modelo.X) + 1) :
          /\ k' = kk
          /\ IF recomendar_material_raises(modelo, df_raw, vetor, kk)
             THEN /\ pc' = "query_error"
                  /\ resultados' = <<>>
                  /\ UNCHANGED <<df_raw, modelo>>
             ELSE /\ pc' = "queried"
                  /\ resultados' = recomendar_material(modelo, df_raw, vetor, kk, tie)
                  /\ df_raw' = InputAfterRecomendar(df_raw, resultados')
                  /\ modelo' = ModelAfterRecomendar(modelo, vetor)
    /\ nq' = nq + 1
    /\ UNCHANGED <<df_proc, df_reproc, texto, entrada, vetor, origem, tie>>

Next == Normalize \/ Fit \/ Vectorize \/ Assemble \/ Recommend

Spec == Init /\ [][Next]_vars

\* ------------------------------------------------------------ properties

Booleans == {"reciclavel", "biodegradavel"}

\* The legacy column a canonical column is derived from when it is absent.
LegacyOf ==
    [custo_index |-> "custo", densidade_kg_m3 |-> "peso",
     tensile_strength_MPa |-> "resistencia", thermal_conductivity_W_mK |-> "condutividade",
     melting_point_C |-> "temperatura_max", reciclavel |-> "reciclavel",
     biodegradavel |-> "biodegradavel"]

\* The raw table holds feature f as a numeric column that is not a boolean.
PlainNumeric(df, f) ==
    f \notin Booleans /\ HasCol(df, f) /\ df.cols[f].dtype \in {"int64", "float64"}

\* The raw table holds nothing feature f can be derived from.
NoSource(df, f) == ~HasCol(df, f) /\ ~HasCol(df, LegacyOf[f])

\* What the imputation writes in a missing cell of a column with the cells cs.
Imputed(cs, f) == NumCell(IF HasMedian(cs) THEN Median(cs) ELSE defaults[f])

\* C1: the table mapear_valores returns has no missing value in any of the
\* seven canonical columns; a missing cell of a numeric canonical column holds
\* the median of the column's present cells, or the default of the field when
\* none is present, and a column the raw table has no source for holds the
\* default in every row.
C1_Complete ==
    df_proc.ok =>
        \A f \in FeatureSet :
            /\ HasCol(df_proc, f)
            /\ Len(df_proc.cols[f].cells) = df_raw.n
            /\ \A i \in 1..df_raw.n : IsNum(df_proc.cols[f].cells[i])
            /\ PlainNumeric(df_raw, f) =>
                  \A i \in 1..df_raw.n :
                      df_proc.cols[f].cells[i] =
                          IF IsNum(df_raw.cols[f].cells[i]) THEN df_raw.cols[f].cells[i]
                          ELSE Imputed(df_raw.cols[f].cells, f)
            /\ NoSource(df_raw, f) =>
                  \A i \in 1..df_raw.n : df_proc.cols[f].cells[i] = NumCell(defaults[f])

\* C1's case: a normalized table whose raw table had a canonical column with a
\* missing and a present cell (filled with the median) and lacked another
\* column (filled with the default).
C1_Witness ==
    /\ df_proc.ok
    /\ df_raw.n >= 2
    /\ \E f \in FeatureSet :
          /\ PlainNumeric(df_raw, f)
          /\ AnyNaN(df_raw.cols[f].cells)
          /\ HasMedian(df_raw.cols[f].cells)
    /\ \E g \in FeatureSet : NoSource(df_raw, g)

\* C2: mapear_valores is total: once it has been called on a raw table it has
\* returned a normalized table and has not raised.
C2_Total == pc # "loaded" => (pc # "normalize_error" /\ df_proc.ok)

\* The table has the seven canonical columns with numeric values, the two
\* booleans as 0 or 1.
Canonical(df) ==
    \A f \in FeatureSet :
        /\ HasCol(df, f)
        /\ df.cols[f].dtype \in {"int64", "float64"}
        /\ f \in Booleans =>
              \A i \in 1..df.n :
                  IsNum(df.cols[f].cells[i]) => df.cols[f].cells[i].n \in {Whole(0), Whole(1)}

\* C3: on a table already in canonical form, mapear_valores applied to its own
\* result returns that result, cell for cell in the seven canonical columns.
C3_Idempotent ==
    (pc = "renormalized" /\ Canonical(df_raw)) =>
        \A f \in FeatureSet : df_reproc.cols[f].cells = df_proc.cols[f].cells

\* C3's case: a canonical table of several rows normalized twice, whose first
\* normalization changed a cell.
C3_Witness ==
    /\ pc = "renormalized"
    /\ Canonical(df_raw)
    /\ df_raw.n >= 2
    /\ \E f \in FeatureSet : df_proc.cols[f].cells # df_raw.cols[f].cells

\* C4: mapear_valores keeps the rows and their order: the result has as many
\* rows as the raw table, the identity column is the raw one, and a present
\* cell of a numeric canonical column is found at the same position.
C4_RowsKept ==
    df_proc.ok =>
        /\ df_proc.n = df_raw.n
        /\ \A c \in DOMAIN df_proc.cols : Len(df_proc.cols[c].cells) = df_raw.n
        /\ df_proc.cols["id"] = df_raw.cols["id"]
        /\ \A f \in FeatureSet :
              PlainNumeric(df_raw, f) =>
                  \A i \in 1..df_raw.n :
                      IsNum(df_raw.cols[f].cells[i]) =>
                          df_proc.cols[f].cells[i] = df_raw.cols[f].cells[i]

\* C4's case: a normalized table of several rows whose raw table had a row
\* with a missing attribute.
C4_Witness ==
    /\ df_proc.ok
    /\ df_raw.n >= 2
    /\ \E f \in FeatureSet : HasCol(df_raw, f) /\ AnyNaN(df_raw.cols[f].cells)

\* C8: after normalization reciclavel and biodegradavel hold exactly 0 or 1 in
\* every row.
C8_Boolean ==
    df_proc.ok =>
        \A f \in Booleans : \A i \in 1..df_proc.n :
            df_proc.cols[f].cells[i].n \in {Whole(0), Whole(1)}

\* The position in the raw table of the row a result row was taken from: the
\* catalog's identity column numbers the rows.
PositionOf(r) == r.row["id"].n \div Unit

\* C5: a call of recomendar_material with k up to the number of fitted rows
\* returns exactly k rows of the original table, at distinct positions, each
\* annotated with the Euclidean distance of the normalized features at its
\* position to the query, in non-decreasing order of distance, and no row left
\* out is nearer than a row returned.
C5_Nearest ==
    pc = "queried" =>
        LET X == FeatureMatrix(df_proc)
        IN /\ k <= df_proc.n
           /\ Len(resultados) = k
           /\ \A j \in 1..k :
                 /\ PositionOf(resultados[j]) \in 1..df_raw.n
                 /\ resultados[j].row = RowAt(df_raw, PositionOf(resultados[j]))
                 /\ resultados[j].distancia = Euclidean2(X[PositionOf(resultados[j])], vetor)
           /\ \A i, j \in 1..k : i < j =>
                 /\ PositionOf(resultados[i]) # PositionOf(resultados[j])
                 /\ BigLeq(resultados[i].distancia, resultados[j].distancia)
           /\ \A p \in 1..df_proc.n :
                 (\A j \in 1..k : PositionOf(resultados[j]) # p) =>
                     \A j \in 1..k : BigLeq(resultados[j].distancia, Euclidean2(X[p], vetor))

\* C5's case: fewer rows asked than fitted, several returned at increasing
\* distances, the nearest not the first row of the table.
C5_Witness ==
    /\ pc = "queried"
    /\ k >= 2
    /\ k < df_proc.n
    /\ PositionOf(resultados[1]) # 1
    /\ BigLess(resultados[1].distancia, resultados[2].distancia)

\* C6: a call of recomendar_material with k greater than the number of fitted
\* rows ends with the error raised to the caller and returns no table.
C6_TooMany ==
    (pc \in {"queried", "query_error"} /\ k > Len(modelo.X)) =>
        (pc = "query_error" /\ resultados = <<>>)

\* C6's case: an index over at least one row asked, with a well-formed query,
\* for more rows than it holds.
C6_Witness ==
    /\ pc = "query_error"
    /\ Len(modelo.X) >= 1
    /\ k = Len(modelo.X) + 1
    /\ Len(vetor) = Len(_FEATURES)
    /\ \A i \in 1..Len(vetor) : IsNum(vetor[i])

\* C7: the text "leve, barato, resistência alta, não biodegradável" gives the
\* vector [1, 900, 200, c, 0, 0, m], c and m the reference table's medians of
\* thermal conductivity and melting point.
C7_Example ==
    (origem = "text" /\ texto = ExampleText) =>
        vetor = <<NumCell(Whole(1)), NumCell(Whole(900)), NumCell(Whole(200)),
                  PopMedian(df_proc, "thermal_conductivity_W_mK", Whole(1)),
                  NumCell(Whole(0)), NumCell(Whole(0)),
                  PopMedian(df_proc, "melting_point_C", Whole(300))>>

\* What texto_para_vetor resolves for a canonical field.
TextField(f, t, pop) ==
    CASE f = "custo_index" -> TextoCusto(t)
      [] f = "densidade_kg_m3" -> TextoDens(t, pop)
      [] f = "tensile_strength_MPa" -> TextoTens(t, pop)
      [] f = "thermal_conductivity_W_mK" -> TextoCond(t, pop)
      [] f = "reciclavel" -> TextoRecicl(t)
      [] f = "biodegradavel" -> TextoBio(t)
      [] OTHER -> TextoTemp(t, pop)

CanonicalOrder ==
    <<"custo_index", "densidade_kg_m3", "tensile_strength_MPa",
      "thermal_conductivity_W_mK", "reciclavel", "biodegradavel", "melting_point_C">>

\* C9: the query vector a path has just made has seven elements and element i
\* is the value of the i-th canonical field, whether texto_para_vetor or the
\* structured inputs made it, and column i of the fitted index is the i-th
\* canonical column of the normalized table.
C9_Order ==
    /\ (pc = "vector" /\ origem = "text") =>
          /\ Len(vetor) = 7
          /\ LET t == Lower(Decode(texto))
             IN \A i \in 1..7 : vetor[i] = TextField(CanonicalOrder[i], t, df_proc)
    /\ (pc = "vector" /\ origem = "struct") =>
          /\ Len(vetor) = 7
          /\ \A i \in 1..7 : vetor[i] = NumCell(entrada[WidgetOf[CanonicalOrder[i]]])
    /\ modelo.ok =>
          \A r \in 1..df_proc.n :
              /\ Len(modelo.X[r]) = 7
              /\ \A i \in 1..7 : modelo.X[r][i] = df_proc.cols[CanonicalOrder[i]].cells[r]

\* C9's case: a vector made from text whose seven elements all differ, with
\* the index fitted.
C9_Witness ==
    /\ pc = "vector"
    /\ origem = "text"
    /\ modelo.ok
    /\ Cardinality({vetor[i] : i \in 1..Len(vetor)}) = 7

\* C10: no operation changes the raw table, a query leaves the fitted index as
\* it was, and a query repeated with the same vector and k returns the same
\* result.
C10_Frame ==
    [][/\ df_raw' = df_raw
       /\ modelo.ok => modelo' = modelo
       /\ (pc = "queried" /\ pc' = "queried" /\ k' = k /\ vetor' = vetor) =>
             resultados' = resultados]_vars

\* C10's case: the table normalized, the index fitted and queried twice, the
\* last query returning rows.
C10_Witness ==
    /\ nq >= 2
    /\ pc = "queried"
    /\ Len(resultados) >= 1
    /\ df_proc.ok
====
